---- MODULE Spec2Model ----
(***************************************************************************)
(* Tools of the Week 3 notebook: the severity classifier parse_log_file    *)
(* with its driver script, the field extractor analyze_logs with its two   *)
(* text panes, and the epoch converter (epoch_to_datetime,                 *)
(* datetime_to_epoch, main).  Text is a sequence of one-character strings; *)
(* the regular expressions are evaluated character by character with the  *)
(* matching order of Python's re module (leftmost start, greedy            *)
(* quantifiers, backtracking).                                             *)
(***************************************************************************)
EXTENDS Integers, Sequences, FiniteSets, TLC

VARIABLES
    source,       \* lines of the file log1.txt, newline characters removed
    pc,           \* position of parse_log_file: "idle", "reading", "returned";
                  \* of the driver after it: "errors_done", "done"
    path,         \* argument source_file_path of the running/last invocation
    lineno,       \* number of lines the for loop has consumed
    errors,       \* local list errors
    warnings,     \* local list warnings
    memo,         \* one remembered invocation of parse_log_file: input and result
    log_text,     \* contents of the log pane
    log_content,  \* local log_content of the last analyze_logs, <<>> before it
    result_text,  \* pieces inserted into the result pane, in order
    tables,       \* the three Counters of the last analyze_logs
    memoA,        \* one remembered invocation of analyze_logs: input and result
    badline,      \* number of the line of log1.txt whose read raises, 0 if none
    error_file,   \* error_messages_from_log1.txt: NoFile or its characters
    warning_file, \* warning_messages_from_log1.txt: NoFile or its characters
    printed,      \* what the driver's last pass over each bucket printed and removed
    tpc,          \* per thread: position inside analyze_logs
    tcontent,     \* per thread: local log_content
    ttables,      \* per thread: the three local Counters
    tpane,        \* per thread: the result pane as its invocation left it
    fn,           \* the conversion function under call
    arg,          \* its argument
    ret,          \* its outcome: a returned string or a raised exception
    mpc,          \* position of main
    root,         \* the root window: "none", "created", "destroyed"
    user_choice,  \* answer of the first dialog
    answer,       \* answer of the second dialog
    main_result,  \* local result of main
    shown         \* dialogs and message boxes shown by main, in order

parseVars == <<source, pc, path, lineno, errors, warnings, memo>>
guiVars == <<log_text, log_content, result_text, tables, memoA>>
readVars == <<badline>>
fileVars == <<error_file, warning_file, printed>>
threadVars == <<tpc, tcontent, ttables, tpane>>
convVars == <<fn, arg, ret>>
mainVars == <<mpc, root, user_choice, answer, main_result, shown>>
\* what the log tools leave alone
otherVars == <<readVars, fileVars, threadVars, convVars, mainVars>>

vars == <<parseVars, guiVars, otherVars>>

----------------------------------------------------------------------------
(* Characters and character classes *)

Lower == {"a","b","c","d","e","f","g","h","i","j","k","l","m",
          "n","o","p","q","r","s","t","u","v","w","x","y","z"}
Upper == {"A","B","C","D","E","F","G","H","I","J","K","L","M",
          "N","O","P","Q","R","S","T","U","V","W","X","Y","Z"}
Digits == {"0","1","2","3","4","5","6","7","8","9"}

WordChars == Lower \cup Upper \cup Digits \cup {"_"}
SpaceChars == {" ", "\t", "\n", "\r"}

\* \w
IsWord(c) == c \in WordChars
\* \s, and the characters str.strip() removes
IsSpace(c) == c \in SpaceChars
\* \d and [0-9]
IsDigit(c) == c \in Digits

\* s[i:j] with 1-based inclusive start i and exclusive end j
Slice(s, i, j) == SubSeq(s, i, j - 1)

\* the literal lit occurs in s at position i
HasAt(s, i, lit) ==
    /\ i >= 1
    /\ i + Len(lit) - 1 <= Len(s)
    /\ \A k \in 1..Len(lit) : s[i + k - 1] = lit[k]

\* every character of s at positions i..j-1 is of the class
AllWord(s, i, j) == \A k \in i..(j - 1) : IsWord(s[k])
AllSpace(s, i, j) == \A k \in i..(j - 1) : IsSpace(s[k])
AllDigit(s, i, j) == \A k \in i..(j - 1) : IsDigit(s[k])

\* str.strip(): drop leading and trailing whitespace
strip(s) ==
    LET keep == {k \in 1..Len(s) : ~IsSpace(s[k])}
    IN  IF keep = {} THEN <<>>
        ELSE LET lo == CHOOSE k \in keep : AllSpace(s, 1, k)
                 hi == CHOOSE k \in keep : AllSpace(s, k + 1, Len(s) + 1)
             IN  Slice(s, lo, hi + 1)

----------------------------------------------------------------------------
(* regex_pattern_article = \w*level=(warning|error)*[\w ]*[\=\"\w \.]*[fF]ailed *)

LitLevel == <<"l","e","v","e","l","=">>
LitWarning == <<"w","a","r","n","i","n","g">>
LitError == <<"e","r","r","o","r">>
LitFailedLower == <<"f","a","i","l","e","d">>
LitFailedUpper == <<"F","a","i","l","e","d">>
\* group(1) of a match in which the group took part in no iteration
None == <<"N","o","n","e","!">>

\* [\w ]
InClassA(c) == IsWord(c) \/ c = " "
\* [\=\"\w \.]
InClassB(c) == IsWord(c) \/ c \in {"=", "\"", " ", "."}

AllClassA(s, i, j) == \A k \in i..(j - 1) : InClassA(s[k])
AllClassB(s, i, j) == \A k \in i..(j - 1) : InClassB(s[k])

\* [fF]ailed at position r
FailedAt(s, r) == HasAt(s, r, LitFailedLower) \/ HasAt(s, r, LitFailedUpper)

\* Variant of TailMatches: the failure keyword is looked for anywhere in the
\* line, as a test "failed" in line would.
TailMatchesAnywhere(s, q) == \E r \in 1..Len(s) : FailedAt(s, r)

\* [\w ]*[\=\"\w \.]*[fF]ailed matches from position q
TailMatches(s, q) ==
    \E r \in q..(Len(s) + 1) :
        /\ FailedAt(s, r)
        /\ \E i \in q..r :
              /\ AllClassA(s, q, i)
              /\ AllClassB(s, i, r)

\* The iterations of (warning|error)* from position q, greedy: element k is
\* <<position after iteration k, text captured by iteration k>>.  The two
\* alternatives start with different characters, so each iteration has one
\* way to match.
RECURSIVE GroupIters(_, _)
GroupIters(s, q) ==
    IF HasAt(s, q, LitWarning)
    THEN <<<<q + Len(LitWarning), LitWarning>>>> \o GroupIters(s, q + Len(LitWarning))
    ELSE IF HasAt(s, q, LitError)
    THEN <<<<q + Len(LitError), LitError>>>> \o GroupIters(s, q + Len(LitError))
    ELSE <<>>

\* The match attempt with level= at position t: the greatest number of group
\* iterations after which the tail matches wins (greedy, then backtracking);
\* the result is <<matched, group(1)>>.
MatchAtLevel(s, t) ==
    LET q0 == t + Len(LitLevel)
        its == GroupIters(s, q0)
        posAfter(k) == IF k = 0 THEN q0 ELSE its[k][1]
        good == {k \in 0..Len(its) : TailMatches(s, posAfter(k))}
    IN  IF ~HasAt(s, t, LitLevel) \/ good = {} THEN <<FALSE, None>>
        ELSE LET k == CHOOSE x \in good : \A y \in good : x >= y
             IN  <<TRUE, IF k = 0 THEN None ELSE its[k][2]>>

\* the positions of level= from which the rest of the pattern matches
LevelMatches(s) ==
    {t \in 1..Len(s) : HasAt(s, t, LitLevel) /\ MatchAtLevel(s, t)[1]}

\* re.search(regex_pattern_article, line): the match at the leftmost start
\* position that has one.  From a start st, \w* takes the longest run of word
\* characters first and gives characters back one at a time, so the level=
\* reached is the last one that a run of word characters from st leads to.
\* The result is <<FALSE, None>> when re.search returns None.
search(s) ==
    LET T == LevelMatches(s)
        reach(st) == {t \in T : t >= st /\ AllWord(s, st, t)}
        sts == {st \in 1..(Len(s) + 1) : reach(st) # {}}
    IN  IF sts = {} THEN <<FALSE, None>>
        ELSE LET st == CHOOSE x \in sts : \A y \in sts : x <= y
                 t  == CHOOSE x \in reach(st) : \A y \in reach(st) : x >= y
             IN  MatchAtLevel(s, t)

----------------------------------------------------------------------------
(* parse_log_file *)

\* Variant of Bucket: the second test is an if on any captured level instead
\* of an elif on warning.
BucketBoth(line, errs, warns) ==
    LET result == search(line)
        level_type == result[2]
        errs1 == IF result[1] /\ level_type = LitError THEN Append(errs, line) ELSE errs
        warns1 == IF result[1] /\ level_type # None THEN Append(warns, line) ELSE warns
    IN  <<errs1, warns1>>

\* the if/elif on level_type: the lists after one non-blank line
Bucket(line, errs, warns) ==
    LET result == search(line)
        level_type == result[2]
    IN  IF ~result[1] THEN <<errs, warns>>
        ELSE IF level_type = LitError THEN <<Append(errs, line), warns>>
        ELSE IF level_type = LitWarning THEN <<errs, Append(warns, line)>>
        ELSE <<errs, warns>>

\* Variant of LoopBody: the line is bucketed as read, without the strip and
\* the blank test.
LoopBodyUntrimmed(raw, errs, warns) == Bucket(raw, errs, warns)

\* one pass of the for loop body over the raw line: strip, skip blank, bucket
LoopBody(raw, errs, warns) ==
    LET line == strip(raw)
    IN  IF line = <<>> THEN <<errs, warns>> ELSE Bucket(line, errs, warns)

\* Variant of FreshLists: the lists live on between invocations, as default
\* arguments or module-level lists would.
KeepLists(errs, warns) == <<errs, warns>>

\* the lists a fresh invocation starts from (errors = [], warnings = [])
FreshLists(errs, warns) == <<<<>>, <<>>>>

\* the paths an invocation is given: the file on disk and one that is absent
SourcePath == "log1.txt"
AbsentPath == "log0.txt"
Exists(p) == p = SourcePath

\* What a caller keeps of one invocation: the input (whether the file was
\* there, and its lines) and the two lists returned; later is set once a
\* later invocation has begun.
NoMemo == [used |-> FALSE, later |-> FALSE, exists |-> FALSE, text |-> <<>>,
           errors |-> <<>>, warnings |-> <<>>]
Remembered(p, errs, warns) ==
    [used |-> TRUE, later |-> FALSE, exists |-> Exists(p),
     text |-> IF Exists(p) THEN source ELSE <<>>,
     errors |-> errs, warnings |-> warns]
Aged(m) == IF m.used THEN [m EXCEPT !.later = TRUE] ELSE m

\* the call: fresh lists, then the os.path.exists test and its early return
ParseCall(p) ==
    /\ pc \in {"idle", "returned", "done"}
    /\ path' = p
    /\ errors' = FreshLists(errors, warnings)[1]
    /\ warnings' = FreshLists(errors, warnings)[2]
    /\ lineno' = 0
    /\ IF Exists(p)
       THEN pc' = "reading" /\ memo' = Aged(memo)
       ELSE /\ pc' = "returned"
            /\ memo' \in {Aged(memo), Remembered(p, errors', warnings')}
    /\ UNCHANGED <<source, guiVars, otherVars>>

\* one iteration of "for line in f" on a line that can be read
ParseLine ==
    /\ pc = "reading"
    /\ lineno < Len(source)
    /\ lineno + 1 # badline
    /\ LET out == LoopBody(source[lineno + 1], errors, warnings)
       IN  errors' = out[1] /\ warnings' = out[2]
    /\ lineno' = lineno + 1
    /\ UNCHANGED <<source, pc, path, memo, guiVars, otherVars>>

\* reading the next line raises (an undecodable byte, an I/O error): the
\* except clause prints, leaves the lists as the loop left them, and the
\* function returns errors, warnings.  A failure of open itself behaves as
\* a failure at the first line.
ParseFail ==
    /\ pc = "reading"
    /\ lineno < Len(source)
    /\ lineno + 1 = badline
    /\ pc' = "returned"
    /\ memo' \in {memo, Remembered(path, errors, warnings)}
    /\ UNCHANGED <<source, path, lineno, errors, warnings, guiVars, otherVars>>

\* the file is exhausted: return errors, warnings
ParseReturn ==
    /\ pc = "reading"
    /\ lineno = Len(source)
    /\ pc' = "returned"
    /\ memo' \in {memo, Remembered(path, errors, warnings)}
    /\ UNCHANGED <<source, path, lineno, errors, warnings, guiVars, otherVars>>

----------------------------------------------------------------------------
(* The three patterns of analyze_logs and re.findall *)

LitGET == <<"G","E","T">>
LitPOST == <<"P","O","S","T">>
LitPUT == <<"P","U","T">>
LitDELETE == <<"D","E","L","E","T","E">>

WordAt(s, i) == i >= 1 /\ i <= Len(s) /\ IsWord(s[i])
\* Variant of Boundary: the pattern without its \b anchors.
BoundaryAnywhere(s, i) == TRUE

\* \b between positions i-1 and i
Boundary(s, i) == WordAt(s, i - 1) # WordAt(s, i)

\* [0-9]{1,3}\. from position i: the positions after the group
GroupEnds(s, i) ==
    {i + l + 1 : l \in {l \in 1..3 : /\ i >= 1
                                      /\ i + l <= Len(s)
                                      /\ AllDigit(s, i, i + l)
                                      /\ s[i + l] = "."}}

\* [0-9]{1,3}\b from position i: the positions after the last group
LastEnds(s, i) ==
    {i + l : l \in {l \in 1..3 : /\ i >= 1
                                  /\ i + l - 1 <= Len(s)
                                  /\ AllDigit(s, i, i + l)
                                  /\ Boundary(s, i + l)}}

\* \b(?:[0-9]{1,3}\.){3}[0-9]{1,3}\b from position i: the ends of its matches
IpEnds(s, i) ==
    IF ~Boundary(s, i) THEN {}
    ELSE UNION {UNION {UNION {LastEnds(s, p4) : p4 \in GroupEnds(s, p3)}
                          : p3 \in GroupEnds(s, p2)}
                   : p2 \in GroupEnds(s, i)}

\* A match attempt at position i: <<end, capture start, capture end>>, ends
\* exclusive, <<0, 0, 0>> when the pattern does not match at i.  {1,3} is
\* greedy: the longest groups are tried first.
IpMatchAt(s, i) ==
    LET ends == IpEnds(s, i)
    IN  IF ends = {} THEN <<0, 0, 0>>
        ELSE LET e == CHOOSE x \in ends : \A y \in ends : x >= y
             IN  <<e, i, e>>

\* Variant of RequestMatchAt: the pattern without its opening quote.
RequestMatchNoQuote(s, i) ==
    LET span(v) == <<i + Len(v), i, i + Len(v)>>
    IN  IF HasAt(s, i, LitGET) THEN span(LitGET)
        ELSE IF HasAt(s, i, LitPOST) THEN span(LitPOST)
        ELSE IF HasAt(s, i, LitPUT) THEN span(LitPUT)
        ELSE IF HasAt(s, i, LitDELETE) THEN span(LitDELETE)
        ELSE <<0, 0, 0>>

\* "(GET|POST|PUT|DELETE) at i; the capture is group 1
RequestMatchAt(s, i) ==
    LET verbAt(v) == HasAt(s, i, <<"\"">>) /\ HasAt(s, i + 1, v)
        span(v) == <<i + 1 + Len(v), i + 1, i + 1 + Len(v)>>
    IN  IF verbAt(LitGET) THEN span(LitGET)
        ELSE IF verbAt(LitPOST) THEN span(LitPOST)
        ELSE IF verbAt(LitPUT) THEN span(LitPUT)
        ELSE IF verbAt(LitDELETE) THEN span(LitDELETE)
        ELSE <<0, 0, 0>>

\* \s(\d{3})\s at i; the capture is group 1
StatusMatchAt(s, i) ==
    IF /\ i >= 1
       /\ i + 4 <= Len(s)
       /\ IsSpace(s[i])
       /\ AllDigit(s, i + 1, i + 4)
       /\ IsSpace(s[i + 4])
    THEN <<i + 5, i + 1, i + 4>>
    ELSE <<0, 0, 0>>

MatchAt(kind, s, i) ==
    IF kind = "ip" THEN IpMatchAt(s, i)
    ELSE IF kind = "request" THEN RequestMatchAt(s, i)
    ELSE StatusMatchAt(s, i)

\* re.findall from position pos: leftmost match, then on from its end
RECURSIVE findall(_, _, _)
findall(kind, s, pos) ==
    IF pos > Len(s) THEN <<>>
    ELSE LET m == MatchAt(kind, s, pos)
         IN  IF m[1] = 0 THEN findall(kind, s, pos + 1)
             ELSE <<Slice(s, m[2], m[3])>> \o findall(kind, s, m[1])

\* Counter: <<value, count>> pairs in first-seen order
CounterAdd(c, v) ==
    IF \E k \in 1..Len(c) : c[k][1] = v
    THEN [k \in 1..Len(c) |-> IF c[k][1] = v THEN <<v, c[k][2] + 1>> ELSE c[k]]
    ELSE Append(c, <<v, 1>>)

RECURSIVE CounterFrom(_, _)
CounterFrom(c, list) ==
    IF list = <<>> THEN c
    ELSE CounterFrom(CounterAdd(c, Head(list)), Tail(list))

Counter(list) == CounterFrom(<<>>, list)

----------------------------------------------------------------------------
(* The panes, open_log_file and analyze_logs *)

\* widget.get("1.0", tk.END): the contents and the pane's final newline
GetAll(pane) == pane \o <<"\n">>

\* Variant of DeleteAll: the pane is not cleared.
KeepAll(pane) == pane

\* widget.delete("1.0", tk.END)
DeleteAll(pane) == <<>>

\* widget.insert(tk.END, piece)
Insert(pane, piece) == Append(pane, piece)

Header(h) == [kind |-> "header", text |-> h, key |-> <<>>, count |-> 0]
\* f"{key}: {count}\n"
Entry(kv) == [kind |-> "entry", text |-> ": ", key |-> kv[1], count |-> kv[2]]

\* for key, count in counter.items(): insert one entry each
RECURSIVE InsertItems(_, _)
InsertItems(pane, c) ==
    IF c = <<>> THEN pane
    ELSE InsertItems(Insert(pane, Entry(Head(c))), Tail(c))

IpHeader == "IP Address Counts:\n"
RequestHeader == "\nRequest Type Counts:\n"
StatusHeader == "\nStatus Code Counts:\n"

\* the extraction of analyze_logs: the three Counters of a text
Extract(text) ==
    [ip      |-> Counter(findall("ip", text, 1)),
     request |-> Counter(findall("request", text, 1)),
     status  |-> Counter(findall("status", text, 1))]

\* the rendering of analyze_logs into the result pane
Render(pane, t) ==
    LET p0 == DeleteAll(pane)
        p1 == InsertItems(Insert(p0, Header(IpHeader)), t.ip)
        p2 == InsertItems(Insert(p1, Header(RequestHeader)), t.request)
        p3 == InsertItems(Insert(p2, Header(StatusHeader)), t.status)
    IN  p3

NoTables == [ip |-> <<>>, request |-> <<>>, status |-> <<>>]
\* What a user keeps of one run of analyze_logs: the text scanned, the
\* tables and the result pane; later is set once a later run has begun.
NoMemoA == [used |-> FALSE, later |-> FALSE, text |-> <<>>,
            tables |-> NoTables, result |-> <<>>]

analyze_logs ==
    /\ pc # "reading"
    /\ log_content' = GetAll(log_text)
    /\ tables' = Extract(log_content')
    /\ result_text' = Render(result_text, tables')
    /\ memoA' \in {Aged(memoA),
                  [used |-> TRUE, later |-> FALSE, text |-> log_content',
                   tables |-> tables', result |-> result_text']}
    /\ UNCHANGED <<parseVars, log_text, otherVars>>

\* Variant of open_log_file: the test of file_path is missing, the pane is
\* replaced even when the dialog was cancelled.
OpenAlwaysLoads(chosen, content) ==
    /\ pc # "reading"
    /\ log_text' = <<>> \o content
    /\ UNCHANGED <<parseVars, log_content, result_text, tables, memoA, otherVars>>

\* open_log_file: the dialog returns a file (its text is content) or is
\* cancelled (file_path is empty)
open_log_file(chosen, content) ==
    /\ pc # "reading"
    /\ log_text' = IF chosen THEN DeleteAll(log_text) \o content ELSE log_text
    /\ UNCHANGED <<parseVars, log_content, result_text, tables, memoA, otherVars>>

----------------------------------------------------------------------------
(* The driver script and its output files *)

NoFile == [exists |-> FALSE, text |-> <<>>]

\* outfile.write(f"{message}\n") for each message, in order
RECURSIVE WriteAll(_, _)
WriteAll(text, messages) ==
    IF messages = <<>> THEN text
    ELSE WriteAll(text \o Head(messages) \o <<"\n">>, Tail(messages))

\* save_messages: open(output_filename, 'w') truncates, then the writes
save_messages(messages) == [exists |-> TRUE, text |-> WriteAll(<<>>, messages)]

\* Variant of Remove: the file of an earlier run is left in place.
KeepFile(file) == file

\* if os.path.exists(file): os.remove(file)
Remove(file) == NoFile

\* nothing printed, nothing removed
NoPrinted == [errors |-> <<>>, warnings |-> <<>>, removed |-> {}]

\* the if/else of the driver on one bucket: the file afterwards
Persist(found, file) == IF found # <<>> THEN save_messages(found) ELSE Remove(file)
\* the count save_messages prints: len(messages)
Saved(found) == IF found # <<>> THEN <<Len(found)>> ELSE <<>>
\* whether os.remove ran
Removes(found, file) == found = <<>> /\ file.exists

\* lines 661-665: the errors bucket
SaveErrors ==
    /\ pc = "returned"
    /\ error_file' = Persist(errors, error_file)
    /\ printed' = [errors |-> Saved(errors), warnings |-> <<>>,
                   removed |-> IF Removes(errors, error_file) THEN {"errors"} ELSE {}]
    /\ pc' = "errors_done"
    /\ UNCHANGED <<source, path, lineno, errors, warnings, memo, guiVars,
                   warning_file, readVars, threadVars, convVars, mainVars>>

\* lines 667-671: the warnings bucket
SaveWarnings ==
    /\ pc = "errors_done"
    /\ warning_file' = Persist(warnings, warning_file)
    /\ printed' = [printed EXCEPT
                      !.warnings = Saved(warnings),
                      !.removed = IF Removes(warnings, warning_file)
                                  THEN @ \cup {"warnings"} ELSE @]
    /\ pc' = "done"
    /\ UNCHANGED <<source, path, lineno, errors, warnings, memo, guiVars,
                   error_file, readVars, threadVars, convVars, mainVars>>

\* log1.txt is written anew between two runs (lines 564-565, or any other
\* writer of the source log)
WriteSource(lines) ==
    /\ pc \in {"idle", "done"}
    /\ source' = lines
    /\ UNCHANGED <<pc, path, lineno, errors, warnings, memo, guiVars, otherVars>>

----------------------------------------------------------------------------
(* analyze_logs called from several threads *)

Threads == {1, 2}

\* The statements of analyze_logs, one thread at a time; log_text and
\* result_text are the module-level widgets every invocation uses.

\* line 399: log_content = log_text.get("1.0", tk.END); each thread makes
\* one invocation
ThreadGet(t) ==
    /\ tpc[t] = "idle"
    /\ tcontent' = [tcontent EXCEPT ![t] = GetAll(log_text)]
    /\ tpc' = [tpc EXCEPT ![t] = "got"]
    /\ UNCHANGED <<parseVars, guiVars, ttables, tpane,
                   readVars, fileVars, convVars, mainVars>>

\* lines 404-410: the three findall calls and Counters
ThreadCount(t) ==
    /\ tpc[t] = "got"
    /\ ttables' = [ttables EXCEPT ![t] = Extract(tcontent[t])]
    /\ tpc' = [tpc EXCEPT ![t] = "counted"]
    /\ UNCHANGED <<parseVars, guiVars, tcontent, tpane,
                   readVars, fileVars, convVars, mainVars>>

\* line 412: result_text.delete("1.0", tk.END)
ThreadDelete(t) ==
    /\ tpc[t] = "counted"
    /\ result_text' = DeleteAll(result_text)
    /\ tpc' = [tpc EXCEPT ![t] = "cleared"]
    /\ UNCHANGED <<parseVars, log_text, log_content, tables, memoA,
                   tcontent, ttables, tpane,
                   readVars, fileVars, convVars, mainVars>>

\* the section a thread inserts next, and its position after it
SectionAt(at) ==
    IF at = "cleared" THEN [header |-> IpHeader, table |-> "ip", next |-> "ip"]
    ELSE IF at = "ip"
    THEN [header |-> RequestHeader, table |-> "request", next |-> "request"]
    ELSE [header |-> StatusHeader, table |-> "status", next |-> "done"]

\* lines 413-415, 417-419, 421-423: a header and the entries of its Counter;
\* after the last section the invocation returns, leaving the pane as it is
ThreadInsert(t) ==
    /\ tpc[t] \in {"cleared", "ip", "request"}
    /\ LET sec == SectionAt(tpc[t])
       IN  /\ result_text' = InsertItems(Insert(result_text, Header(sec.header)),
                                         ttables[t][sec.table])
           /\ tpc' = [tpc EXCEPT ![t] = sec.next]
           /\ tpane' = IF sec.next = "done"
                       THEN [tpane EXCEPT ![t] = result_text']
                       ELSE tpane
    /\ UNCHANGED <<parseVars, log_text, log_content, tables, memoA,
                   tcontent, ttables,
                   readVars, fileVars, convVars, mainVars>>

----------------------------------------------------------------------------
(* The epoch converter *)

\* an argument or dialog answer: none yet ("unset"), Python's None
\* ("None"), a str ("text") or an object that is neither a str nor a number
\* and is true in a test ("object")
NoArg == [kind |-> "unset", text |-> <<>>]
PyNone == [kind |-> "None", text |-> <<>>]
Str(t) == [kind |-> "text", text |-> t]
Obj == [kind |-> "object", text |-> <<>>]

\* an outcome: nothing yet, a returned str or a raised exception (text is
\* then its class name)
NoRet == [kind |-> "unset", text |-> <<>>]
Returned(t) == [kind |-> "returned", text |-> t]
Raised(e) == [kind |-> "raised", text |-> <<e>>]

\* the value of a decimal digit
DigitChars == <<"0","1","2","3","4","5","6","7","8","9">>
DigitVal(c) == (CHOOSE k \in 1..10 : DigitChars[k] = c) - 1

\* the end (exclusive) of the run of digits that begins at i
DigitRunEnd(s, i) ==
    CHOOSE e \in i..(Len(s) + 1) :
        AllDigit(s, i, e) /\ (e = Len(s) + 1 \/ ~IsDigit(s[e]))

\* a run of digits without its leading zeros
RECURSIVE NoLeadingZeros(_)
NoLeadingZeros(d) ==
    IF d # <<>> /\ Head(d) = "0" THEN NoLeadingZeros(Tail(d)) ELSE d

\* a < b for digit runs without leading zeros
Less(a, b) ==
    \/ Len(a) < Len(b)
    \/ /\ Len(a) = Len(b)
       /\ \E k \in 1..Len(a) :
             /\ \A j \in 1..(k - 1) : a[j] = b[j]
             /\ DigitVal(a[k]) < DigitVal(b[k])

\* the number a short run of digits denotes; runs of more than three digits
\* count as MaxExponent, beyond every exponent a float can have
MaxExponent == 999
RECURSIVE ToNat(_)
ToNat(d) ==
    IF d = <<>> THEN 0
    ELSE IF Len(d) > 3 THEN MaxExponent
    ELSE ToNat(SubSeq(d, 1, Len(d) - 1)) * 10 + DigitVal(d[Len(d)])

\* the number four digits denote
ToNat4(d) == ToNat(SubSeq(d, 1, 3)) * 10 + DigitVal(d[4])

\* n zeros
Zeros(n) == [k \in 1..n |-> "0"]

\* the letters of inf, infinity and nan in lower case
FoldCase(c) ==
    IF c = "I" THEN "i" ELSE IF c = "N" THEN "n" ELSE IF c = "F" THEN "f"
    ELSE IF c = "T" THEN "t" ELSE IF c = "Y" THEN "y" ELSE IF c = "A" THEN "a"
    ELSE c
Folded(s) == [k \in 1..Len(s) |-> FoldCase(s[k])]

\* the largest decimal exponent of a finite float (about 1.8e308)
FloatDigits == 309

\* float(text): the text is stripped; a sign; then inf, infinity or nan, or
\* digits with an optional fraction and an optional exponent.  The result
\* keeps, of a finite value, the sign and the digits of its integer part.
\* ok is FALSE where float raises ValueError.
NotAFloat == [ok |-> FALSE, special |-> "", neg |-> FALSE, int |-> <<>>]
Infinite(neg) == [ok |-> TRUE, special |-> "inf", neg |-> neg, int |-> <<>>]
\* a finite value of the integer part whole, or infinity beyond the range
Finite(neg, whole) ==
    IF Len(whole) > FloatDigits THEN Infinite(neg)
    ELSE [ok |-> TRUE, special |-> "", neg |-> neg, int |-> whole]

\* the integer part of ipart.fpart times ten to the power mag, or to the
\* power -mag where down
Shifted(ipart, fpart, mag, down) ==
    IF mag = 0 THEN ipart
    ELSE IF down
    THEN SubSeq(ipart, 1, Len(ipart) - mag)
    ELSE IF NoLeadingZeros(ipart \o fpart) = <<>> THEN <<>>
    ELSE IF mag >= FloatDigits THEN Zeros(FloatDigits + 1)
    ELSE IF mag <= Len(fpart)
    THEN ipart \o SubSeq(fpart, 1, mag)
    ELSE ipart \o fpart \o Zeros(mag - Len(fpart))

\* the optional exponent, which begins at f1, and the end of the text
Exponent(neg, b, ipart, fpart, f1) ==
    LET hasExp == f1 <= Len(b) /\ b[f1] \in {"e", "E"}
        esigned == hasExp /\ f1 + 1 <= Len(b) /\ b[f1 + 1] \in {"+", "-"}
        e0 == IF esigned THEN f1 + 2 ELSE f1 + 1
        e1 == IF hasExp THEN DigitRunEnd(b, e0) ELSE f1
        mag == IF hasExp THEN ToNat(NoLeadingZeros(Slice(b, e0, e1))) ELSE 0
        down == esigned /\ b[f1 + 1] = "-"
    IN  IF \/ Len(ipart) + Len(fpart) = 0
           \/ (hasExp /\ e1 = e0)
           \/ e1 # Len(b) + 1
        THEN NotAFloat
        ELSE Finite(neg, NoLeadingZeros(Shifted(ipart, fpart, mag, down)))

\* the digits before and after the optional point; the integer digits end
\* at i1
Mantissa(neg, b, i1) ==
    LET dot == i1 <= Len(b) /\ b[i1] = "."
        f0 == IF dot THEN i1 + 1 ELSE i1
        f1 == IF dot THEN DigitRunEnd(b, f0) ELSE i1
    IN  Exponent(neg, b, Slice(b, 1, i1), Slice(b, f0, f1), f1)

\* the text b after the sign
Unsigned(neg, b) ==
    IF Folded(b) \in {<<"i","n","f">>, <<"i","n","f","i","n","i","t","y">>}
    THEN Infinite(neg)
    ELSE IF Folded(b) = <<"n","a","n">>
    THEN [ok |-> TRUE, special |-> "nan", neg |-> neg, int |-> <<>>]
    ELSE Mantissa(neg, b, DigitRunEnd(b, 1))

HasSign(s) == s # <<>> /\ s[1] \in {"+", "-"}
float(text) ==
    Unsigned(HasSign(strip(text)) /\ strip(text)[1] = "-",
             IF HasSign(strip(text)) THEN Tail(strip(text)) ELSE strip(text))

\* Limits of datetime.fromtimestamp, as digits of seconds: 2^63, the range
\* of time_t; the first second the C library's localtime cannot express;
\* 10000-01-01 00:00:00 and the seconds from 0001-01-01 to the epoch, the
\* years datetime supports.  Local time shifts the last two by the zone's
\* offset.
TimeTLimit == <<"9","2","2","3","3","7","2","0","3","6","8","5","4","7","7","5","8","0","8">>
LocaltimeLimit == <<"6","7","7","6","8","0","3","6","1","9","1","6","7","6","8","0","0">>
YearLimit == <<"2","5","3","4","0","2","3","0","0","8","0","0">>
YearOneLimit == <<"6","2","1","3","5","5","9","6","8","0","0">>

\* datetime.datetime.fromtimestamp(timestamp): the exceptions it can raise,
\* "" where it can return.  A negative timestamp in the supported years is
\* converted on POSIX systems and raises OSError on Windows.
fromtimestamp(x) ==
    IF x.special = "nan" THEN {"ValueError"}
    ELSE IF x.special = "inf" THEN {"OverflowError"}
    ELSE IF ~Less(x.int, TimeTLimit) THEN {"OverflowError"}
    ELSE IF ~Less(x.int, LocaltimeLimit) THEN {"OSError"}
    ELSE IF x.neg
    THEN IF Less(YearOneLimit, x.int) THEN {"ValueError"}
         ELSE IF x.int = <<>> THEN {""}
         ELSE {"", "OSError"}
    ELSE IF ~Less(x.int, YearLimit) THEN {"ValueError"}
    ELSE {""}

\* the messages of the two functions, up to the first sentence
ErrorPrefix == <<"E","r","r","o","r",":">>
Message(words) == ErrorPrefix \o <<" ">> \o words
MsgInvalidEpoch == Message(<<"I","n","v","a","l","i","d"," ","E","p","o","c","h"," ","t","i","m","e",".">>)
MsgEpochNotNumber == Message(<<"E","p","o","c","h"," ","t","i","m","e"," ","m","u","s","t"," ","b","e"," ","a"," ","n","u","m","b","e","r",".">>)
MsgSystemError == Message(<<"C","o","u","l","d"," ","n","o","t"," ","c","o","n","v","e","r","t"," ","t","i","m","e","s","t","a","m","p",".">>)
MsgEmpty == Message(<<"D","a","t","e","t","i","m","e"," ","s","t","r","i","n","g"," ","c","a","n","n","o","t"," ","b","e"," ","e","m","p","t","y",".">>)
MsgInvalidDatetime == Message(<<"I","n","v","a","l","i","d"," ","d","a","t","e","t","i","m","e"," ","s","t","r","i","n","g"," ","o","r"," ","f","o","r","m","a","t",".">>)
MsgNotString == Message(<<"D","a","t","e","t","i","m","e"," ","s","t","r","i","n","g"," ","m","u","s","t"," ","b","e"," ","a"," ","v","a","l","i","d"," ","s","t","r","i","n","g",".">>)

\* dt_object.strftime("%Y-%m-%d %H:%M:%S"): the shape of the string, # for
\* each digit; the calendar fields are not computed
FormattedDatetime ==
    <<"#","#","#","#","-","#","#","-","#","#"," ","#","#",":","#","#",":","#","#">>
\* str(int(dt_object.timestamp())): a run of digits, after a minus sign for a
\* time before the epoch
FormattedEpoch(before) == IF before THEN <<"-","#">> ELSE <<"#">>

\* the except clauses of epoch_to_datetime: what a raised exception becomes
EpochHandler(e) ==
    IF e = "ValueError" THEN Returned(MsgInvalidEpoch)
    ELSE IF e = "TypeError" THEN Returned(MsgEpochNotNumber)
    ELSE IF e = "OSError" THEN Returned(MsgSystemError)
    ELSE Raised(e)

\* epoch_to_datetime(epoch_time): the outcomes it can have
epoch_to_datetime(epoch_time) ==
    IF epoch_time.kind # "text" THEN {EpochHandler("TypeError")}
    ELSE LET timestamp == float(epoch_time.text)
         IN  IF ~timestamp.ok THEN {EpochHandler("ValueError")}
             ELSE {IF e = "" THEN Returned(FormattedDatetime) ELSE EpochHandler(e)
                      : e \in fromtimestamp(timestamp)}

\* a field of one or two digits that begins at i: its end (exclusive) and
\* value, end 0 where the text has no such field there
Field(s, i) ==
    LET e == DigitRunEnd(s, i)
    IN  IF e - i \in {1, 2} THEN <<e, ToNat(Slice(s, i, e))>> ELSE <<0, 0>>

\* the day field may also be a space and one digit from 1 to 9
DayField(s, i) ==
    IF i + 1 <= Len(s) /\ s[i] = " " /\ IsDigit(s[i + 1]) /\ s[i + 1] # "0"
          /\ DigitRunEnd(s, i + 1) = i + 2
    THEN <<i + 2, DigitVal(s[i + 1])>>
    ELSE Field(s, i)

\* the end (exclusive) of the run of whitespace that begins at i
SpaceRunEnd(s, i) ==
    CHOOSE e \in i..(Len(s) + 1) :
        AllSpace(s, i, e) /\ (e = Len(s) + 1 \/ ~IsSpace(s[e]))

LeapYear(y) == (y % 4 = 0 /\ y % 100 # 0) \/ y % 400 = 0
DaysIn(y, m) ==
    IF m = 2 THEN (IF LeapYear(y) THEN 29 ELSE 28)
    ELSE IF m \in {4, 6, 9, 11} THEN 30 ELSE 31

\* datetime.datetime.strptime(datetime_str, "%Y-%m-%d %H:%M:%S") on a str:
\* four digits, -, month, -, day, whitespace, hour, :, minute, :, second and
\* nothing after it, then the checks of the datetime constructor.  ok is
\* FALSE where it raises ValueError.
NotADatetime == [ok |-> FALSE, year |-> 0, month |-> 0, day |-> 0]
strptime(s) ==
    LET mo == Field(s, 6)
        da == DayField(s, mo[1] + 1)
        h0 == SpaceRunEnd(s, da[1])
        ho == Field(s, h0)
        mi == Field(s, ho[1] + 1)
        se == Field(s, mi[1] + 1)
        year == ToNat4(Slice(s, 1, 5))
    IN  IF /\ Len(s) >= 5 /\ AllDigit(s, 1, 5) /\ s[5] = "-"
           /\ mo[1] # 0 /\ mo[2] \in 1..12
           /\ mo[1] <= Len(s) /\ s[mo[1]] = "-"
           /\ da[1] # 0 /\ da[2] \in 1..31
           /\ h0 > da[1]
           /\ ho[1] # 0 /\ ho[2] \in 0..23
           /\ ho[1] <= Len(s) /\ s[ho[1]] = ":"
           /\ mi[1] # 0 /\ mi[2] \in 0..59
           /\ mi[1] <= Len(s) /\ s[mi[1]] = ":"
           /\ se[1] = Len(s) + 1 /\ se[2] \in 0..59
           /\ year >= 1
           /\ da[2] <= DaysIn(year, mo[2])
        THEN [ok |-> TRUE, year |-> year, month |-> mo[2], day |-> da[2]]
        ELSE NotADatetime

\* the year of the epoch
EpochYear == 1970
\* the last year datetime supports
LastYear == 9999

\* dt_object.timestamp() of a naive datetime: the exceptions it can raise,
\* "" where it can return.  The first day of year 1 is out of range in every
\* zone, the last day of year 9999 in the zones east of Greenwich; a time
\* before the epoch is converted on POSIX systems and raises OSError on
\* Windows.
timestamp(dt) ==
    IF dt.year = 1 /\ dt.month = 1 /\ dt.day = 1 THEN {"ValueError"}
    ELSE IF dt.year = LastYear /\ dt.month = 12 /\ dt.day = 31 THEN {"", "ValueError"}
    ELSE IF dt.year < EpochYear THEN {"", "OSError"}
    ELSE {""}

\* the except clauses of datetime_to_epoch: what a raised exception becomes
DatetimeHandler(e) ==
    IF e = "ValueError" THEN Returned(MsgInvalidDatetime)
    ELSE IF e = "TypeError" THEN Returned(MsgNotString)
    ELSE Raised(e)

\* datetime_to_epoch(datetime_str): the outcomes it can have
datetime_to_epoch(datetime_str) ==
    IF datetime_str.kind = "None" \/ datetime_str = Str(<<>>)
    THEN {Returned(MsgEmpty)}
    ELSE IF datetime_str.kind # "text" THEN {DatetimeHandler("TypeError")}
    ELSE LET dt_object == strptime(datetime_str.text)
         IN  IF ~dt_object.ok THEN {DatetimeHandler("ValueError")}
             ELSE {IF e = ""
                   THEN Returned(FormattedEpoch(dt_object.year < EpochYear))
                   ELSE DatetimeHandler(e)
                      : e \in timestamp(dt_object)}

\* a call of one of the two functions from the notebook (lines 272-290)
Call(f, x) ==
    /\ fn = "none"
    /\ arg = x
    /\ fn' = f
    /\ ret' \in (IF f = "epoch_to_datetime" THEN epoch_to_datetime(x)
                  ELSE datetime_to_epoch(x))
    /\ UNCHANGED <<arg, parseVars, guiVars, readVars, fileVars, threadVars, mainVars>>

\* main: the dialogs and message boxes, each recorded with the state of the
\* root window at the time it is shown
One1 == Str(<<"1">>)
Two2 == Str(<<"2">>)
AskString(caption) ==
    [widget |-> "askstring", title |-> caption, text |-> <<>>, root |-> root]
ShowInfo(caption, message) ==
    [widget |-> "showinfo", title |-> caption, text |-> message, root |-> root]
ShowError(caption, message) ==
    [widget |-> "showerror", title |-> caption, text |-> message, root |-> root]

LabelTime == <<"H","u","m","a","n","-","r","e","a","d","a","b","l","e"," ","t","i","m","e",":"," ">>
LabelEpoch == <<"E","p","o","c","h"," ","t","i","m","e","s","t","a","m","p",":"," ">>
TextCancelled == <<"O","p","e","r","a","t","i","o","n"," ","c","a","n","c","e","l","l","e","d"," ","b","y"," ","u","s","e","r",".">>
TextInvalidChoice ==
    <<"I","n","v","a","l","i","d"," ","c","h","o","i","c","e","."," ","P","l","e","a","s","e"," ","r","u","n"," ","a","g","a","i","n"," ">>
    \o <<"a","n","d"," ","e","n","t","e","r"," ","1"," ","o","r"," ","2",".">>

\* Variant of MessageBox: the result is shown in an info box without the
\* test for an error message.
MessageBoxNoErrorTest(choice, input, res) ==
    IF choice \in {One1, Two2}
    THEN IF input = PyNone THEN ShowInfo("Cancelled", TextCancelled)
         ELSE IF choice = One1
         THEN ShowInfo("Converted Datetime", LabelTime \o res.text)
         ELSE ShowInfo("Converted Epoch", LabelEpoch \o res.text)
    ELSE IF choice = PyNone THEN ShowInfo("Cancelled", TextCancelled)
    ELSE ShowError("Invalid Choice", TextInvalidChoice)

\* the message box of the if/elif chain of lines 161-189
MessageBox(choice, input, res) ==
    IF choice \in {One1, Two2}
    THEN IF input = PyNone THEN ShowInfo("Cancelled", TextCancelled)
         ELSE IF HasAt(res.text, 1, ErrorPrefix)
         THEN ShowError("Conversion Error", res.text)
         ELSE IF choice = One1
         THEN ShowInfo("Converted Datetime", LabelTime \o res.text)
         ELSE ShowInfo("Converted Epoch", LabelEpoch \o res.text)
    ELSE IF choice = PyNone THEN ShowInfo("Cancelled", TextCancelled)
    ELSE ShowError("Invalid Choice", TextInvalidChoice)

\* lines 151-152: tkinter.Tk() and root.withdraw(); without a display Tk()
\* raises TclError, which the except clause of line 196 reports
CreateRoot(display) ==
    /\ mpc = "start"
    /\ IF display
       THEN root' = "created" /\ mpc' = "ask_choice"
       ELSE root' = root /\ mpc' = "returned"
    /\ UNCHANGED <<user_choice, answer, main_result, shown,
                   parseVars, guiVars, readVars, fileVars, threadVars, convVars>>

\* line 159: the first dialog; its answer selects the branch
AskChoice(ans) ==
    /\ mpc = "ask_choice"
    /\ shown' = Append(shown, AskString("Conversion Type"))
    /\ user_choice' = ans
    /\ mpc' = IF ans \in {One1, Two2} THEN "ask_input" ELSE "report"
    /\ UNCHANGED <<root, answer, main_result,
                   parseVars, guiVars, readVars, fileVars, threadVars, convVars>>

\* lines 162 and 173: the second dialog
AskInput(ans) ==
    /\ mpc = "ask_input"
    /\ shown' = Append(shown, AskString(IF user_choice = One1
                                        THEN "Input Epoch" ELSE "Input Datetime"))
    /\ answer' = ans
    /\ mpc' = IF ans = PyNone THEN "report" ELSE "convert"
    /\ UNCHANGED <<root, user_choice, main_result,
                   parseVars, guiVars, readVars, fileVars, threadVars, convVars>>

\* lines 164 and 178: the conversion; an exception it raises is caught by
\* the except clause of line 201, which prints it, and main returns
Convert ==
    /\ mpc = "convert"
    /\ main_result' \in (IF user_choice = One1 THEN epoch_to_datetime(answer)
                          ELSE datetime_to_epoch(answer))
    /\ mpc' = IF main_result'.kind = "raised" THEN "returned" ELSE "report"
    /\ UNCHANGED <<root, user_choice, answer, shown,
                   parseVars, guiVars, readVars, fileVars, threadVars, convVars>>

\* the one messagebox call of the branch taken
Report ==
    /\ mpc = "report"
    /\ shown' = Append(shown, MessageBox(user_choice, answer, main_result))
    /\ mpc' = "destroy"
    /\ UNCHANGED <<root, user_choice, answer, main_result,
                   parseVars, guiVars, readVars, fileVars, threadVars, convVars>>

\* line 194: root.destroy(), then main returns
Destroy ==
    /\ mpc = "destroy"
    /\ root' = "destroyed"
    /\ mpc' = "returned"
    /\ UNCHANGED <<user_choice, answer, main_result, shown,
                   parseVars, guiVars, readVars, fileVars, threadVars, convVars>>

----------------------------------------------------------------------------
(* Inputs *)

\* bounds of the inputs
MaxChunks == 4
MaxLines == 3
MaxConvChunks == 3

\* all concatenations of at most n pieces drawn from C
RECURSIVE ConcatUpTo(_, _)
ConcatUpTo(C, n) ==
    IF n = 0 THEN {<<>>}
    ELSE LET P == ConcatUpTo(C, n - 1)
         IN  P \cup {p \o c : p \in P, c \in C}

\* all sequences of at most n elements of S
RECURSIVE SeqsUpTo(_, _)
SeqsUpTo(S, n) ==
    IF n = 0 THEN {<<>>}
    ELSE LET P == SeqsUpTo(S, n - 1)
         IN  P \cup {Append(p, x) : p \in P, x \in S}

\* the pieces log lines are put together from
LineChunks ==
    {LitLevel, LitError, LitWarning, LitFailedLower, LitFailedUpper,
     <<"s">>, <<" ">>, <<":">>, <<"\"">>}
RichLines == ConcatUpTo(LineChunks, MaxChunks)

\* lines shaped like those of log1.txt
LineErrorFailed ==
    LitLevel \o LitError \o <<" ","m","s","g","=","\"","D","B"," ">>
        \o LitFailedLower \o <<".","\"">>
LineWarningFailed ==
    LitLevel \o LitWarning \o <<" ","m","s","g","=","\"">>
        \o LitFailedUpper \o <<" ","x","\""," ">>
LineWarningOnly ==
    LitLevel \o LitWarning \o <<" ","m","s","g","=","\"","A","r","c","h","\"">>
LineBlank == <<" ">>
SampleLines ==
    {LineErrorFailed, LineWarningFailed, LineWarningOnly, LineBlank}

\* the source logs of the driver's runs
MaxRunLines == 2
RunLogs == SeqsUpTo({LineErrorFailed, LineWarningFailed, LineWarningOnly}, MaxRunLines)

\* the pieces pane texts are put together from
Triple == <<"9","9","9">>
ThreeGroups == Triple \o <<".">> \o Triple \o <<".">> \o Triple \o <<".">>
BlobChunks ==
    {Triple, ThreeGroups, <<"4">>, <<".">>, <<" ">>, <<"a">>, <<"\"">>, LitGET}
RichBlobs == ConcatUpTo(BlobChunks, MaxChunks)

Lit200 == <<"2","0","0">>
Lit404 == <<"4","0","4">>

\* the request lines of an access log, with or without the opening quote
Quote(q) == IF q THEN <<"\"">> ELSE <<>>
HttpTail == <<" ","H","T","T","P","/","1",".","1","\""," ">>
ReqA(q) == Quote(q) \o LitGET \o <<" ","/","a">> \o HttpTail \o Lit200
ReqB(q) == Quote(q) \o LitPOST \o <<" ","/","b">> \o HttpTail \o Lit404
ReqC(q) == Quote(q) \o LitGET \o <<" ","/","c">> \o HttpTail \o Lit200
Separators == {<<"\n">>, <<" ">>}
AccessBlobs ==
    {ReqA(qa) \o s1 \o ReqB(qb) \o s2 \o ReqC(qc) :
        qa \in BOOLEAN, qb \in BOOLEAN, qc \in BOOLEAN,
        s1 \in Separators, s2 \in Separators}

\* the files the dialog of open_log_file offers
AddressLine == <<"1","0",".","0",".","0",".","7"," ","-"," ">>
FileBlobs ==
    {<<>>, AddressLine \o <<"\"">> \o LitGET \o <<" ","/","\""," ">> \o Lit200
              \o <<" ","5","1","2","\n">>}

\* the pieces arguments of the conversion functions are put together from
ConvChunks ==
    {<<"1">>, <<"2">>, <<"0">>, <<"8">>, <<"9">>, <<".">>, <<"-">>, <<"e">>, <<" ">>, <<":">>,
     <<"e","1">>, <<"e","2">>, <<"i","n","f">>, <<"n","a","n">>, <<"x">>,
     <<"2","0","2","0","-","1","0","-","2","6">>,
     <<"1","9","0","0","-","0","2","-","2","9">>,
     <<"0","0","0","1","-","0","1","-","0","1">>,
     <<"1","9","6","9","-","1","2","-","3","1">>,
     <<"1","4",":","0","0",":","0","0">>}
ConvArgs(n) == {PyNone, Obj} \cup {Str(t) : t \in ConcatUpTo(ConvChunks, n)}

\* what the user types into the dialogs of main, or None for a cancel
Choices == {PyNone, One1, Two2, Str(<<>>), Str(<<"3">>), Str(<<" ","1">>), Str(<<"1","2">>)}
Answers ==
    {PyNone, Str(<<>>), Str(<<"x">>), Str(<<"i","n","f">>), Str(<<"n","a","n">>),
     Str(<<"1","6","0","3","7","2","0","8","0","0">>), Str(<<"-","1">>),
     Str(<<"1","e","2","0">>), Str(<<"1","e","1","8">>), Str(<<"0">>),
     Str(<<"9","9","9","9","-","1","2","-","3","1"," ","2","3",":","5","9",":","5","9">>),
     Str(<<"2","0","2","0","-","1","0","-","2","6"," ","1","4",":","0","0",":","0","0">>),
     Str(<<"2","0","2","0","/","1","0","/","2","6"," ","1","4",":","0","0",":","0","0">>),
     Str(<<"1","9","6","9","-","1","2","-","3","1"," ","1","4",":","0","0",":","0","0">>)}

\* further files: two addresses of which the first recurs, an access log,
\* and status codes in a row
TwoAddresses ==
    AddressLine \o <<"9",".","9",".","9",".","9"," ">> \o AddressLine
GuiFiles ==
    FileBlobs \cup {TwoAddresses,
                    ReqA(TRUE) \o <<"\n">> \o ReqB(TRUE) \o <<"\n">>,
                    <<" ">> \o Lit404 \o <<" ">> \o Lit200 \o <<" ">> \o Lit404 \o <<" ">>}

----------------------------------------------------------------------------
(* Specifications *)

InitParse ==
    /\ pc = "idle"
    /\ path = ""
    /\ lineno = 0
    /\ errors = <<>>
    /\ warnings = <<>>
    /\ memo = NoMemo

InitGui ==
    /\ log_content = <<>>
    /\ result_text = <<>>
    /\ tables = NoTables
    /\ memoA = NoMemoA

\* every line of log1.txt can be read
InitRead == badline = 0

\* the output files are not there, nothing was printed
InitFiles ==
    /\ error_file = NoFile
    /\ warning_file = NoFile
    /\ printed = NoPrinted

\* no thread is inside analyze_logs
InitThreads ==
    /\ tpc = [t \in Threads |-> "idle"]
    /\ tcontent = [t \in Threads |-> <<>>]
    /\ ttables = [t \in Threads |-> NoTables]
    /\ tpane = [t \in Threads |-> <<>>]

\* no conversion function has been called
InitConv ==
    /\ fn = "none"
    /\ arg = NoArg
    /\ ret = NoRet

\* main has not started
InitMain ==
    /\ mpc = "start"
    /\ root = "none"
    /\ user_choice = NoArg
    /\ answer = NoArg
    /\ main_result = NoRet
    /\ shown = <<>>

\* the tools a specification does not exercise
InitOther == InitRead /\ InitFiles /\ InitThreads /\ InitConv /\ InitMain

\* The tools on a log file of a few lines like those of log1.txt.
Init ==
    /\ source \in SeqsUpTo(SampleLines, MaxLines)
    /\ log_text = <<>>
    /\ InitParse
    /\ InitGui
    /\ InitOther

Next ==
    \/ \E p \in {SourcePath, AbsentPath} : ParseCall(p)
    \/ ParseLine
    \/ ParseReturn
    \/ \E content \in FileBlobs : open_log_file(TRUE, content)
    \/ open_log_file(FALSE, <<>>)
    \/ analyze_logs

Spec == Init /\ [][Next]_vars

\* parse_log_file on every one-line file over the line pieces.
InitLine ==
    /\ \E l \in RichLines : source = <<l>>
    /\ log_text = <<>>
    /\ InitParse
    /\ InitGui
    /\ InitOther

NextLine ==
    \/ ParseCall(SourcePath)
    \/ ParseLine
    \/ ParseReturn

SpecLine == InitLine /\ [][NextLine]_vars

\* The two buttons of the log analysis window, pressed in any order.
InitWindow ==
    /\ source = <<>>
    /\ log_text = <<>>
    /\ InitParse
    /\ InitGui
    /\ InitOther

NextWindow ==
    \/ \E content \in GuiFiles : open_log_file(TRUE, content)
    \/ open_log_file(FALSE, <<>>)
    \/ analyze_logs

SpecWindow == InitWindow /\ [][NextWindow]_vars

\* Two threads that each call analyze_logs, the log pane being loaded with
\* a thread's own text before it starts.
InitThreaded ==
    /\ source = <<>>
    /\ log_text \in FileBlobs
    /\ InitParse
    /\ InitGui
    /\ InitOther

NextThreaded ==
    \/ \E content \in FileBlobs : open_log_file(TRUE, content)
    \/ \E t \in Threads : ThreadGet(t)
    \/ \E t \in Threads : ThreadCount(t)
    \/ \E t \in Threads : ThreadDelete(t)
    \/ \E t \in Threads : ThreadInsert(t)

SpecThreaded == InitThreaded /\ [][NextThreaded]_vars

\* One call of a conversion function on every argument over the pieces.
InitCall ==
    /\ arg \in ConvArgs(MaxConvChunks)
    /\ fn = "none"
    /\ ret = NoRet
    /\ source = <<>>
    /\ log_text = <<>>
    /\ InitParse
    /\ InitGui
    /\ InitRead /\ InitFiles /\ InitThreads /\ InitMain

NextCall == \E f \in {"epoch_to_datetime", "datetime_to_epoch"} : Call(f, arg)

SpecCall == InitCall /\ [][NextCall]_vars

\* One run of main, with or without a display, over the answers a user can
\* give.
InitRun ==
    /\ source = <<>>
    /\ log_text = <<>>
    /\ InitParse
    /\ InitGui
    /\ InitOther

NextRun ==
    \/ \E display \in BOOLEAN : CreateRoot(display)
    \/ \E ans \in Choices : AskChoice(ans)
    \/ \E ans \in Answers : AskInput(ans)
    \/ Convert
    \/ Report
    \/ Destroy

SpecRun == InitRun /\ [][NextRun]_vars

\* Runs of the driver script over source logs that change between runs.
InitDriver ==
    /\ source \in RunLogs
    /\ log_text = <<>>
    /\ InitParse
    /\ InitGui
    /\ InitOther

NextDriver ==
    \/ \E lines \in RunLogs : WriteSource(lines)
    \/ ParseCall(SourcePath)
    \/ ParseLine
    \/ ParseReturn
    \/ SaveErrors
    \/ SaveWarnings

SpecDriver == InitDriver /\ [][NextDriver]_vars

\* parse_log_file on a file one of whose lines may fail to be read.
InitReadFailure ==
    /\ source \in SeqsUpTo(SampleLines, MaxLines)
    /\ badline \in 0..Len(source)
    /\ log_text = <<>>
    /\ InitParse
    /\ InitGui
    /\ InitFiles /\ InitThreads /\ InitConv /\ InitMain

NextReadFailure ==
    \/ \E p \in {SourcePath, AbsentPath} : ParseCall(p)
    \/ ParseLine
    \/ ParseFail
    \/ ParseReturn

SpecReadFailure == InitReadFailure /\ [][NextReadFailure]_vars

\* analyze_logs on every pane text over the text pieces and on the access
\* log samples.
InitBlob ==
    /\ source = <<>>
    /\ log_text \in RichBlobs \cup AccessBlobs
    /\ InitParse
    /\ InitGui
    /\ InitOther

NextBlob == analyze_logs

SpecBlob == InitBlob /\ [][NextBlob]_vars

----------------------------------------------------------------------------
(* Properties of parse_log_file on one line *)

\* the elements of a list
Elems(list) == {list[k] : k \in 1..Len(list)}

\* the text occurs somewhere in s
Contains(s, lit) == \E i \in 1..(Len(s) + 1) : HasAt(s, i, lit)

\* the positions of the markers level=warning and level=error in a line
WarningMarkers(line) == {t \in 1..Len(line) : HasAt(line, t, LitLevel \o LitWarning)}
ErrorMarkers(line) == {t \in 1..Len(line) : HasAt(line, t, LitLevel \o LitError)}

\* failed or Failed occurs in the line after position t
FailedAfter(line, t) == \E r \in (t + 1)..Len(line) : FailedAt(line, r)

\* the line the loop has processed, when the source has one line
TheLine == strip(source[1])
Processed == Len(source) = 1 /\ lineno = 1 /\ TheLine # <<>>

\* C1: a non-blank line that carries a level=warning or level=error marker
\* and has no failed/Failed after any such marker is appended to neither list.
C1_MarkerWithoutFailureExcluded ==
    Processed =>
        LET M == WarningMarkers(TheLine) \cup ErrorMarkers(TheLine)
        IN  (M # {} /\ \A t \in M : ~FailedAfter(TheLine, t))
                => errors = <<>> /\ warnings = <<>>

\* C1 witness: a line with a marker and a failure keyword only before it has
\* been processed and returned.
C1_Witness ==
    /\ Processed
    /\ pc = "returned"
    /\ WarningMarkers(TheLine) # {}
    /\ ErrorMarkers(TheLine) = {}
    /\ Contains(TheLine, LitFailedLower)
    /\ \A t \in WarningMarkers(TheLine) : ~FailedAfter(TheLine, t)

\* C2: a line in which a level=error (resp. level=warning) marker is followed
\* later by failed/Failed, whatever lies between, is appended to errors (resp.
\* warnings).  Lines that carry markers of both levels are left aside.
C2_FailureAfterMarkerBucketed ==
    Processed =>
        /\ (/\ WarningMarkers(TheLine) = {}
            /\ \E t \in ErrorMarkers(TheLine) : FailedAfter(TheLine, t))
              => TheLine \in Elems(errors)
        /\ (/\ ErrorMarkers(TheLine) = {}
            /\ \E t \in WarningMarkers(TheLine) : FailedAfter(TheLine, t))
              => TheLine \in Elems(warnings)

\* the values of the level= fields of a line: after each level=, the longest
\* run of word characters
LevelValues(line) ==
    {Slice(line, t + Len(LitLevel),
           CHOOSE e \in (t + Len(LitLevel))..(Len(line) + 1) :
               /\ AllWord(line, t + Len(LitLevel), e)
               /\ (e = Len(line) + 1 \/ ~IsWord(line[e])))
        : t \in {t \in 1..Len(line) : HasAt(line, t, LitLevel)}}

\* C5: a line is appended to errors (resp. warnings) only when one of its
\* level= values is literally error (resp. warning); values such as errors or
\* warningerror put the line in neither list.
C5_OnlyLiteralLevels ==
    Processed =>
        /\ TheLine \in Elems(errors) => LitError \in LevelValues(TheLine)
        /\ TheLine \in Elems(warnings) => LitWarning \in LevelValues(TheLine)

----------------------------------------------------------------------------
(* Properties of parse_log_file on a file *)

\* C4: no line text is in both lists, and each line consumed is appended at
\* most once.
C4_BucketsDisjoint ==
    /\ Elems(errors) \cap Elems(warnings) = {}
    /\ Len(errors) + Len(warnings) <= lineno

\* C4 witness: the same qualifying text was read twice and both lists are
\* in use.
C4_Witness ==
    /\ pc = "returned"
    /\ errors # <<>>
    /\ warnings # <<>>
    /\ \E i, j \in 1..Len(source) : i # j /\ source[i] = source[j]
    /\ Len(errors) + Len(warnings) = Len(source)

----------------------------------------------------------------------------
(* Properties of the extraction of analyze_logs *)

Kinds == {"ip", "request", "status"}

\* analyze_logs has run; log_content is the text it scanned
Analysed == log_content # <<>>

\* the count a Counter holds for a value, 0 when the value is no key
TableCount(c, v) ==
    IF \E k \in 1..Len(c) : c[k][1] = v
    THEN c[CHOOSE k \in 1..Len(c) : c[k][1] = v][2]
    ELSE 0
Keys(c) == {c[k][1] : k \in 1..Len(c)}

\* the positions of s at which the pattern of a category matches, and the
\* value captured there
Occurrences(kind, s) == {i \in 1..Len(s) : MatchAt(kind, s, i)[1] # 0}
ValueAt(kind, s, i) == Slice(s, MatchAt(kind, s, i)[2], MatchAt(kind, s, i)[3])

\* C3: each table maps every value to the number of its occurrences that
\* satisfy the category's pattern, occurrences that share a delimiter
\* included, and holds no key with a count below 1.
C3_CountsEveryOccurrence ==
    Analysed =>
        \A kind \in Kinds :
            LET occ == Occurrences(kind, log_content)
                c == tables[kind]
            IN  /\ \A k \in 1..Len(c) : c[k][2] >= 1
                /\ \A v \in Keys(c) : \E i \in occ : ValueAt(kind, log_content, i) = v
                /\ \A i \in occ :
                      TableCount(c, ValueAt(kind, log_content, i)) =
                          Cardinality({j \in occ : ValueAt(kind, log_content, j)
                                                     = ValueAt(kind, log_content, i)})

\* a token of exactly three digits starts at i, with whitespace immediately
\* before it and immediately after it
StatusTokenAt(s, i) ==
    /\ i >= 2
    /\ i + 3 <= Len(s)
    /\ IsSpace(s[i - 1])
    /\ AllDigit(s, i, i + 3)
    /\ IsSpace(s[i + 3])
StatusTokens(s) == {i \in 1..Len(s) : StatusTokenAt(s, i)}

\* C6: the status table counts every three-digit token that has whitespace on
\* both sides, also when several follow each other separated by one blank,
\* and counts nothing else.
C6_EveryStatusTokenCounted ==
    Analysed =>
        LET toks == StatusTokens(log_content)
        IN  /\ \A v \in Keys(tables.status) :
                  \E i \in toks : Slice(log_content, i, i + 3) = v
            /\ \A i \in toks :
                  TableCount(tables.status, Slice(log_content, i, i + 3)) =
                      Cardinality({j \in toks : Slice(log_content, j, j + 3)
                                                  = Slice(log_content, i, i + 3)})

\* the Counter holds exactly the given <<value, count>> pairs
HoldsExactly(c, pairs) == Len(c) = Cardinality(pairs) /\ {c[k] : k \in 1..Len(c)} = pairs

\* C7 as stated: a text containing GET /a HTTP/1.1" 200, POST /b HTTP/1.1" 404
\* and GET /c HTTP/1.1" 200 yields verb counts {GET: 2, POST: 1} and status
\* counts {200: 2, 404: 1}.
C7_SampleCountsAsStated ==
    (/\ Analysed
     /\ Contains(log_text, ReqA(FALSE))
     /\ Contains(log_text, ReqB(FALSE))
     /\ Contains(log_text, ReqC(FALSE)))
        => /\ HoldsExactly(tables.request, {<<LitGET, 2>>, <<LitPOST, 1>>})
           /\ HoldsExactly(tables.status, {<<Lit200, 2>>, <<Lit404, 1>>})

One(b) == IF b THEN 1 ELSE 0

\* C7 amended: on a text made of the three request lines the status counts
\* are {200: 2, 404: 1}, and a verb is counted exactly when the opening double
\* quote stands immediately before it: with all three quotes the verb counts
\* are {GET: 2, POST: 1}, with none the verb table is empty.
C7_QuotedRequestsCounted ==
    (Analysed /\ log_text \in AccessBlobs) =>
        /\ HoldsExactly(tables.status, {<<Lit200, 2>>, <<Lit404, 1>>})
        /\ Keys(tables.request) \subseteq {LitGET, LitPOST}
        /\ TableCount(tables.request, LitGET) =
              One(Contains(log_text, ReqA(TRUE))) + One(Contains(log_text, ReqC(TRUE)))
        /\ TableCount(tables.request, LitPOST) = One(Contains(log_text, ReqB(TRUE)))

\* C7 witness: the three request lines with their opening quotes were analysed
\* and gave the counts of the example.
C7_Witness ==
    /\ Analysed
    /\ Contains(log_text, ReqA(TRUE))
    /\ Contains(log_text, ReqB(TRUE))
    /\ Contains(log_text, ReqC(TRUE))
    /\ HoldsExactly(tables.request, {<<LitGET, 2>>, <<LitPOST, 1>>})

\* s[i..e-1] is four groups of 1 to 3 digits separated by dots
DigitsAndDot(s, i, l) ==
    i + l <= Len(s) /\ AllDigit(s, i, i + l) /\ s[i + l] = "."
FourGroups(s, i, e) ==
    \E l1 \in 1..3 : DigitsAndDot(s, i, l1) /\
    \E l2 \in 1..3 : DigitsAndDot(s, i + l1 + 1, l2) /\
    \E l3 \in 1..3 : DigitsAndDot(s, i + l1 + l2 + 2, l3) /\
    \E l4 \in 1..3 :
        /\ e = i + l1 + l2 + l3 + l4 + 3
        /\ e - 1 <= Len(s)
        /\ AllDigit(s, i + l1 + l2 + l3 + 3, e)

\* the spans <<start, end>> (end exclusive) of s that begin and end with a
\* digit and have the length of four groups and three dots
Spans(s) ==
    {sp \in {<<i, i + n>> : i \in 1..Len(s), n \in 7..15} :
        /\ sp[2] - 1 <= Len(s)
        /\ IsDigit(s[sp[1]])
        /\ IsDigit(s[sp[2] - 1])}

\* the characters next to s[i..e-1], if any, are neither a digit nor a dot
NoDigitOrDotAround(s, i, e) ==
    /\ i = 1 \/ (~IsDigit(s[i - 1]) /\ s[i - 1] # ".")
    /\ e = Len(s) + 1 \/ (~IsDigit(s[e]) /\ s[e] # ".")

\* the characters next to s[i..e-1], if any, are not word characters
NoWordCharAround(s, i, e) ==
    /\ i = 1 \/ ~IsWord(s[i - 1])
    /\ e = Len(s) + 1 \/ ~IsWord(s[e])

\* C8 as stated: the address table counts a substring exactly when it is four
\* dot-separated groups of 1 to 3 digits whose neighbours are neither a digit
\* nor a dot.
C8_AddressesAsStated ==
    Analysed =>
        LET cand == {sp \in Spans(log_content) :
                        /\ FourGroups(log_content, sp[1], sp[2])
                        /\ NoDigitOrDotAround(log_content, sp[1], sp[2])}
            text(sp) == Slice(log_content, sp[1], sp[2])
        IN  /\ \A v \in Keys(tables.ip) : \E sp \in cand : text(sp) = v
            /\ \A sp \in cand :
                  TableCount(tables.ip, text(sp)) =
                      Cardinality({x \in cand : text(x) = text(sp)})

\* the candidates taken by a scan from the left that continues after each
\* candidate it takes
RECURSIVE TakenFrom(_, _)
TakenFrom(cand, from) ==
    LET rest == {sp \in cand : sp[1] >= from}
    IN  IF rest = {} THEN {}
        ELSE LET first == CHOOSE sp \in rest : \A x \in rest : sp[1] <= x[1]
             IN  {first} \cup TakenFrom(cand, first[2])

\* C8 amended: the address table counts a substring exactly when it is four
\* dot-separated groups of 1 to 3 digits with no word character (letter,
\* digit, underscore) next to it on either side and it does not overlap an
\* address counted earlier in the scan from the left; a neighbouring dot does
\* not prevent the count and group values are not range-checked.
C8_AddressesAtWordBoundaries ==
    Analysed =>
        LET cand == {sp \in Spans(log_content) :
                        /\ FourGroups(log_content, sp[1], sp[2])
                        /\ NoWordCharAround(log_content, sp[1], sp[2])}
            taken == TakenFrom(cand, 1)
            text(sp) == Slice(log_content, sp[1], sp[2])
        IN  /\ \A v \in Keys(tables.ip) : \E sp \in taken : text(sp) = v
            /\ \A sp \in taken :
                  TableCount(tables.ip, text(sp)) =
                      Cardinality({x \in taken : text(x) = text(sp)})

\* C8 witness: an address followed by a dot and a further group was analysed
\* and counted, its groups being 999.
C8_Witness ==
    /\ Analysed
    /\ log_text = ThreeGroups \o Triple \o <<".">> \o <<"4">>
    /\ TableCount(tables.ip, ThreeGroups \o Triple) = 1

----------------------------------------------------------------------------
(* Properties of both tools *)

OnlyHeaders == <<Header(IpHeader), Header(RequestHeader), Header(StatusHeader)>>

\* the input of the invocation of parse_log_file that has returned
InputExists == Exists(path)
InputText == IF Exists(path) THEN source ELSE <<>>

\* C9: on an empty pane analyze_logs yields three empty tables and inserts
\* only the three headers; on a source without lines, or an absent one,
\* parse_log_file returns two empty lists.
C9_EmptyInputEmptyResult ==
    /\ log_content = GetAll(<<>>) =>
          tables = NoTables /\ result_text = OnlyHeaders
    /\ (pc = "returned" /\ InputText = <<>>) =>
          errors = <<>> /\ warnings = <<>>

\* C9 witness: the empty pane was analysed after a pane with matches, and
\* parse_log_file has returned from a file without lines.
C9_Witness ==
    /\ log_content = GetAll(<<>>)
    /\ memoA.used /\ memoA.tables # NoTables
    /\ pc = "returned"
    /\ InputExists
    /\ source = <<>>

\* C10: an invocation of the extraction, or of parse_log_file, on the input
\* of a remembered invocation gives the remembered tables and result pane,
\* or the remembered lists.
C10_SameInputSameOutput ==
    /\ (memoA.used /\ memoA.text = log_content) =>
          tables = memoA.tables /\ result_text = memoA.result
    /\ (/\ memo.used
        /\ pc = "returned"
        /\ memo.exists = InputExists
        /\ memo.text = InputText) =>
          errors = memo.errors /\ warnings = memo.warnings

\* C10 witness: both tools have run again on a remembered input that gave
\* matches, after the remembered invocation.
C10_Witness ==
    /\ memoA.used /\ memoA.later /\ memoA.text = log_content
    /\ memoA.tables # NoTables
    /\ memo.used /\ memo.later /\ pc = "returned"
    /\ memo.exists = InputExists /\ memo.text = InputText
    /\ memo.errors # <<>> /\ memo.warnings # <<>>

----------------------------------------------------------------------------
(* Properties of parse_log_file on a file that may fail to be read *)

\* C11: what parse_log_file returns for a source that exists is the buckets
\* of the whole source (every line was processed) or nothing of the input
\* (both lists empty); never lists filled from the lines before a failure.
C11_NoPartialResult ==
    (pc = "returned" /\ Exists(path)) =>
        \/ lineno = Len(source)
        \/ errors = <<>> /\ warnings = <<>>

----------------------------------------------------------------------------
(* Properties of the driver's runs *)

\* C12: the line count of the source can be read off the result: two
\* invocations on sources with different numbers of lines never return the
\* same pair of lists.
C12_LineCountObservable ==
    (/\ memo.used /\ memo.exists
     /\ pc = "returned" /\ InputExists
     /\ Len(memo.text) # Len(source)) =>
        <<errors, warnings>> # <<memo.errors, memo.warnings>>

\* the lines of a text whose lines each end in a newline
RECURSIVE LinesOf(_, _)
LinesOf(text, from) ==
    IF from > Len(text) THEN <<>>
    ELSE LET nl == CHOOSE e \in from..(Len(text) + 1) :
                       /\ e = Len(text) + 1 \/ text[e] = "\n"
                       /\ \A k \in from..(e - 1) : text[k] # "\n"
         IN  <<Slice(text, from, nl)>> \o LinesOf(text, nl + 1)

\* the file exists exactly when the list is non-empty, and then holds the
\* list's lines in order, one per line, each ended by a newline, the count
\* printed being the list's length
HoldsBucket(file, found, count) ==
    /\ file.exists <=> found # <<>>
    /\ file.exists =>
          /\ LinesOf(file.text, 1) = found
          /\ file.text[Len(file.text)] = "\n"
          /\ count = <<Len(found)>>

\* C17: when a run of the driver has finished, each output file exists if
\* and only if that run's list is non-empty, and then holds exactly the
\* list's lines in order with the printed count equal to the list's length;
\* a file of an earlier run does not survive a run whose bucket is empty.
C17_OutputFilesMirrorLastRun ==
    pc = "done" =>
        /\ HoldsBucket(error_file, errors, printed.errors)
        /\ HoldsBucket(warning_file, warnings, printed.warnings)

\* C17 witness: a run has finished that removed the error file of an
\* earlier run and wrote two lines to the warning file.
C17_Witness ==
    /\ pc = "done"
    /\ "errors" \in printed.removed
    /\ ~error_file.exists
    /\ warning_file.exists
    /\ Len(warnings) = 2

----------------------------------------------------------------------------
(* Properties of the lists of parse_log_file *)

\* the trimmed line qualifies for the bucket of the level
Qualifies(line, res, level) == line # <<>> /\ res[1] /\ res[2] = level

\* the trimmed texts of the qualifying lines among the first k lines, in
\* the order of the source, each as often as it occurs: the error lines and
\* the warning lines
RECURSIVE Qualifying(_, _)
Qualifying(lines, k) ==
    IF k = 0 THEN <<<<>>, <<>>>>
    ELSE LET before == Qualifying(lines, k - 1)
             line == strip(lines[k])
             res == search(line)
         IN  <<IF Qualifies(line, res, LitError)
               THEN Append(before[1], line) ELSE before[1],
               IF Qualifies(line, res, LitWarning)
               THEN Append(before[2], line) ELSE before[2]>>

\* the number of the first k lines that are not blank after trimming
NonBlank(lines, k) == Cardinality({i \in 1..k : strip(lines[i]) # <<>>})

\* C16: each list parse_log_file returns is the subsequence of the lines it
\* has read (all lines of the source, unless the read failed) that qualify
\* for its bucket, as trimmed texts in input order and with their
\* multiplicity; blank lines contribute nothing, so the two lengths together
\* do not exceed the number of non-blank lines.
C16_ListsAreQualifyingSubsequences ==
    (pc = "returned" /\ InputExists) =>
        /\ <<errors, warnings>> = Qualifying(source, lineno)
        /\ Len(errors) + Len(warnings) <= NonBlank(source, lineno)

\* C16 witness: a source with a blank line and a qualifying line, written
\* with whitespace around it, that occurs twice has been read to its end.
C16_Witness ==
    /\ pc = "returned" /\ InputExists
    /\ lineno = Len(source)
    /\ \E i \in 1..Len(source) : strip(source[i]) = <<>>
    /\ Len(warnings) = 2
    /\ warnings[1] = warnings[2]
    /\ warnings[1] # source[1]
    /\ warnings[1] = strip(source[1])

----------------------------------------------------------------------------
(* Properties of the log analysis window *)

\* the result pane that shows the tables: three headers, each followed by
\* one "value: count" entry per key in the table's order
Entries(c) == [k \in 1..Len(c) |-> Entry(c[k])]
Shows(t) ==
    <<Header(IpHeader)>> \o Entries(t.ip)
        \o <<Header(RequestHeader)>> \o Entries(t.request)
        \o <<Header(StatusHeader)>> \o Entries(t.status)

\* the keys of the table are the values found, in the order in which each
\* was found first
FirstIndex(list, v) ==
    CHOOSE k \in 1..Len(list) : list[k] = v /\ \A j \in 1..(k - 1) : list[j] # v
InFirstSeenOrder(c, list) ==
    /\ Keys(c) = Elems(list)
    /\ \A a, b \in 1..Len(c) :
          a < b => FirstIndex(list, c[a][1]) < FirstIndex(list, c[b][1])

\* C18: the result pane is empty before the first Analyze and afterwards
\* shows the tables extracted from what the log pane held at the most recent
\* Analyze, keys in first-seen order; the result pane changes only by an
\* Analyze, which replaces it, so an Open never changes it; and a cancelled
\* Open changes neither pane.
C18_ResultPaneShowsLastAnalysis ==
    /\ [](IF Analysed
          THEN /\ result_text = Shows(tables)
               /\ \A kind \in Kinds :
                     InFirstSeenOrder(tables[kind], findall(kind, log_content, 1))
          ELSE result_text = <<>>)
    /\ [][(log_content' # log_content \/ result_text' # result_text) =>
              /\ log_content' = GetAll(log_text)
              /\ result_text' = Shows(Extract(GetAll(log_text)))]_vars
    /\ [][open_log_file(FALSE, <<>>) => UNCHANGED <<log_text, result_text>>]_vars

\* C18 witness: a result with entries was replaced by the result of an
\* empty pane, and a file with two addresses was opened after that.
C18_Witness ==
    /\ memoA.used /\ memoA.later
    /\ Len(memoA.tables.ip) = 2
    /\ result_text = OnlyHeaders
    /\ log_text = TwoAddresses

----------------------------------------------------------------------------
(* Properties of concurrent invocations *)

\* C13: under every interleaving of two invocations of analyze_logs, the
\* result an invocation leaves is the one it leaves when it runs alone: the
\* rendering of the tables of the text it read.
C13_InterleavedAsAlone ==
    \A t \in Threads :
        tpc[t] = "done" => tpane[t] = Shows(Extract(tcontent[t]))

----------------------------------------------------------------------------
(* Properties of the conversion functions *)

Called == fn # "none"
StartsWithError(text) == HasAt(text, 1, ErrorPrefix)

\* the argument is not a convertible value: not a str, or a text that is no
\* number (no datetime of the format), or one outside the range the
\* conversion supports
Invalid(f, x) ==
    \/ x.kind # "text"
    \/ /\ f = "epoch_to_datetime"
       /\ \E v \in {float(x.text)} : ~v.ok \/ "" \notin fromtimestamp(v)
    \/ /\ f = "datetime_to_epoch"
       /\ \E v \in {strptime(x.text)} : ~v.ok \/ "" \notin timestamp(v)

\* C14: a call of epoch_to_datetime or datetime_to_epoch returns a string
\* and never raises, and for an argument that is not convertible the string
\* starts with Error:.
C14_ReturnsStringNeverRaises ==
    Called =>
        /\ ret.kind = "returned"
        /\ Invalid(fn, arg) => StartsWithError(ret.text)

----------------------------------------------------------------------------
(* Properties of main *)

\* C15: when main has returned and the root window was created, the root
\* window has been destroyed, on every path, a raised exception included.
C15_RootDestroyedBeforeReturn ==
    (mpc = "returned" /\ root # "none") => root = "destroyed"

\* the positions of the dialogs and of the message boxes among what main
\* has shown
DialogsShown == {k \in 1..Len(shown) : shown[k].widget = "askstring"}
BoxesShown == {k \in 1..Len(shown) : shown[k].widget # "askstring"}
NoException == root # "none" /\ main_result.kind # "raised"
Converted == main_result # NoRet
\* the message box the branch taken must show
ExpectedKind ==
    IF user_choice \notin {PyNone, One1, Two2} THEN "showerror"
    ELSE IF user_choice = PyNone \/ answer = PyNone THEN "showinfo"
    ELSE IF HasAt(main_result.text, 1, ErrorPrefix) THEN "showerror"
    ELSE "showinfo"
ExpectedBox(box) ==
    /\ box.widget = ExpectedKind
    /\ (user_choice = PyNone \/ (user_choice \in {One1, Two2} /\ answer = PyNone))
          => box.title = "Cancelled"
    /\ (Converted /\ ExpectedKind = "showerror") => box.text = main_result.text
    /\ (Converted /\ ExpectedKind = "showinfo") =>
          \E label \in {LabelTime, LabelEpoch} : box.text = label \o main_result.text

\* C19: on a run of main that raises no exception exactly one message box
\* is shown, after the dialogs and before the root window is destroyed: an
\* error box for an invalid choice or a result starting with "Error:", a
\* "Cancelled" info box when the first or the second dialog was cancelled,
\* and else an info box with the converted value; the second dialog is shown
\* only after the answer 1 or 2, and the conversion is called only when the
\* second dialog returned a value.
C19_OneMessageBoxPerRun ==
    /\ Cardinality(DialogsShown) <= 2
    /\ Cardinality(DialogsShown) = 2 => user_choice \in {One1, Two2}
    /\ Converted => (Cardinality(DialogsShown) = 2 /\ answer.kind = "text")
    /\ \A k \in BoxesShown :
          /\ k = Len(shown)
          /\ \A d \in DialogsShown : d < k
          /\ shown[k].root = "created"
    /\ (mpc = "returned" /\ NoException) =>
          /\ Cardinality(BoxesShown) = 1
          /\ \A k \in BoxesShown : ExpectedBox(shown[k])

\* a run in which the conversion returned an error message, which was
\* shown in an error box before the root window was destroyed
C19_Witness ==
    /\ mpc = "returned"
    /\ root = "destroyed"
    /\ Converted
    /\ HasAt(main_result.text, 1, ErrorPrefix)
    /\ \E k \in BoxesShown : shown[k].widget = "showerror"

====
